---- MODULE Spec2Model ----
(***************************************************************************)
(* Model of ga4gh/datamodel/rna_quantification.py: the RnaQuantificationSet *)
(* / RNASeqResult / ExpressionLevel objects and the SqliteRNABackend        *)
(* queries they issue against the sqlite store.                             *)
(*                                                                          *)
(* Numbers stored as floats (expression, threshold, ...) are modelled as    *)
(* integers counting tenths: 2.0 is 20, 0.1 is 1, 0.5 is 5.                 *)
(* Compound ids are modelled as the sequence of their segments.             *)
(***************************************************************************)
EXTENDS Integers, Sequences, FiniteSets, TLC

VARIABLES
    store,          \* the sqlite file: [quant, expr |-> rows, damaged], read-only
    dbFilePath,     \* RnaQuantificationSet._dbFilePath
    db,             \* RnaQuantificationSet._db: a backend object, 0 when None
    rnaQuantIdMap,  \* RnaQuantificationSet._rnaQuantIdMap: id -> RNASeqResult
    rnaQuantIds,    \* RnaQuantificationSet._rnaQuantIds
    dbconn,         \* backend object -> its _dbconn connection
    thr,            \* request thread -> its call frame
    quota           \* request thread -> number of calls it may still start

vars == <<store, dbFilePath, db, rnaQuantIdMap, rnaQuantIds, dbconn, thr, quota>>

-----------------------------------------------------------------------------
(* Bounds of the model *)

\* longest Expression table drawn by InitSearch
MaxExprRows == 3
\* longest RnaQuantification table drawn by Init
MaxQuantRows == 2
\* largest pageToken / pageSize a request passes
MaxPage == 2
\* calls a request thread makes, one after the other, in Spec
MaxCalls == 3

-----------------------------------------------------------------------------
(* Values *)

Range(s) == {s[i] : i \in DOMAIN s}

Min(a, b) == IF a <= b THEN a ELSE b

\* pageSize=None
NoLimit == -1

\* threshold=0.0, the default of getExpressionLevels and searchExpressionLevelsInDb
DefaultThreshold == 0

\* the dataset and the set: the ancestry above every quantification
DatasetId == <<"ds">>
SetLocalId == "rqs"

DataUrl == "rnaseq.db"

\* column order of the two tables (the sqlite3.Row keys)
QuantColumns ==
    <<"id", "name", "description", "feature_set_ids", "read_group_ids", "programs">>

ExprColumns ==
    <<"id", "name", "feature_id", "rna_quantification_id", "expression",
      "is_normalized", "raw_read_count", "score", "units", "conf_low", "conf_hi">>

ColumnIndex(cols, c) == CHOOSE i \in DOMAIN cols : cols[i] = c

\* the value a stored row (a tuple in column order) holds in column c
Col(cols, row, c) == row[ColumnIndex(cols, c)]

\* fetchone() on an empty result
NoRow == <<>>

ExprIdNames == <<"e1", "e2", "e3", "e4", "e5">>

ExprNames == <<"n1", "n2", "n3", "n4", "n5">>

\* A comma-joined column is modelled by the sequence of its items; the empty
\* string is the empty sequence.
Split(joined) == IF joined = <<>> THEN <<"">> ELSE joined

\* An RnaQuantification row with the given id and name; its other columns
\* are fixed by the id.
QuantRow(id, name) ==
    <<id, name, IF id = "rq1" THEN "first" ELSE "other",
      IF id = "rq1" THEN <<"fs1", "fs2">> ELSE <<>>,
      IF id = "rq1" THEN <<>> ELSE <<"rg1", "rg2">>,
      IF id = "rq1" THEN <<>> ELSE <<"p1">> >>

\* The i-th Expression row: its id and name are fixed by its position, the
\* other numeric columns are distinct from one another.
ExprRow(i, feature, quant, expression, normalized) ==
    <<ExprIdNames[i], ExprNames[i], feature, quant, expression, normalized,
      100 + i, 200 + i, 2, 300 + i, 400 + i>>

QuantIdPool == {"rq1", "rq2"}

QuantRowIds == {"rq1", "rq2", "rq3"}

\* every sequence over S of length at most n
SeqsUpTo(S, n) == UNION {[1..k -> S] : k \in 0..n}

\* RnaQuantification tables: ids are distinct; the name of a row may differ
\* from its id, and rows may share a name
QuantTables ==
    { q \in SeqsUpTo({QuantRow(id, name) : id \in QuantRowIds, name \in QuantIdPool},
                     MaxQuantRows) :
        \A i, j \in DOMAIN q : q[i][1] = q[j][1] => i = j }

\* what a row of an Expression table may hold: feature_id,
\* rna_quantification_id, expression, is_normalized
ExprChoices ==
    { <<"f1", "rq1", 20, 1>>, <<"f2", "rq1", 1, 0>>, <<"f1", "rq1", -5, 0>>,
      <<"f2", "rq2", 20, 1>> }

ExprTables ==
    { [i \in DOMAIN c |-> ExprRow(i, c[i][1], c[i][2], c[i][3], c[i][4])] :
        c \in SeqsUpTo(ExprChoices, MaxExprRows) }

\* a well-formed RnaQuantification table: two rows, name = id
DefaultQuant == <<QuantRow("rq1", "rq1"), QuantRow("rq2", "rq2")>>

\* the end-to-end store of the specification plus a row of another
\* quantification
DefaultExpr ==
    <<ExprRow(1, "f1", "rq1", 20, 1), ExprRow(2, "f2", "rq1", 1, 0),
      ExprRow(3, "f1", "rq2", -5, 0)>>

-----------------------------------------------------------------------------
(* ga4gh.sqliteBackend: the part of the repository the module under study   *)
(* calls; modelled from the specification's StoreConnection / QueryBuilder. *)

\* what a backend method hands back: the rows, or the exception it raised
Returned(rows) == [exc |-> "", excArg |-> "", rows |-> rows]

Raised(exc, arg) == [exc |-> exc, excArg |-> arg, rows |-> <<>>]

\* sqliteBackend.limitsSql: LIMIT pageSize OFFSET pageToken; no LIMIT clause
\* when pageSize is None
limitsSql(rows, pageToken, pageSize) ==
    LET last == IF pageSize = NoLimit THEN Len(rows)
                ELSE Min(Len(rows), pageToken + pageSize)
    IN SubSeq(rows, pageToken + 1, last)

\* sqliteBackend.sqliteRow2Dict: dict(zip(row.keys(), row))
sqliteRow2Dict(cols, row) == [c \in Range(cols) |-> Col(cols, row, c)]

\* sqliteBackend.sqliteRows2dicts
sqliteRows2dicts(cols, rows) == [i \in DOMAIN rows |-> sqliteRow2Dict(cols, rows[i])]

\* cursor.fetchone(): the first row of the result, None when it is empty
fetchone(rows) == IF rows = <<>> THEN NoRow ELSE rows[1]

\* a connection object: who opened it and whether it is still open
Connection(t) == [opener |-> t, open |-> TRUE]

\* a backend whose connection is closed, or on which __enter__ never ran
NoConnection == [opener |-> 0, open |-> FALSE]

\* SqliteBackedDataSource.__enter__: self._dbconn = sqlite3.connect(...)
Enter(conns, b, t) == [conns EXCEPT ![b] = Connection(t)]

\* SqliteBackedDataSource.__exit__: self._dbconn.close()
Exit(conns, b) == [conns EXCEPT ![b] = NoConnection]

-----------------------------------------------------------------------------
(* SqliteRNABackend *)

\* SELECT * FROM RnaQuantification [WHERE id = ?] + limits
searchRnaQuantificationsInDb(st, pageToken, pageSize, rnaQuantificationId) ==
    LET Match(r) == \/ rnaQuantificationId = ""
                    \/ Col(QuantColumns, r, "id") = rnaQuantificationId
    IN Returned(sqliteRows2dicts(QuantColumns,
           limitsSql(SelectSeq(st.quant, Match), pageToken, pageSize)))

\* SELECT * FROM RnaQuantification WHERE id = ?; the AttributeError that
\* sqliteRow2Dict(None) raises becomes RnaQuantificationNotFoundException
getRnaQuantificationById(st, rnaQuantificationId) ==
    LET Match(r) == Col(QuantColumns, r, "id") = rnaQuantificationId
        row == fetchone(SelectSeq(st.quant, Match))
    IN IF row = NoRow
       THEN Raised("RnaQuantificationNotFoundException", rnaQuantificationId)
       ELSE Returned(<<sqliteRow2Dict(QuantColumns, row)>>)

\* ExpressionMatches with "expression > ?" for "expression >= ?"
ExpressionMatchesStrictly(r, rnaQuantId, featureIds, threshold) ==
    /\ Col(ExprColumns, r, "rna_quantification_id") = rnaQuantId
    /\ Col(ExprColumns, r, "expression") > threshold
    /\ Len(featureIds) > 0 => Col(ExprColumns, r, "feature_id") \in Range(featureIds)

\* ExpressionMatches without the test len(featureIds) > 0: the clause
\* "feature_id in ()" of an empty filter matches no row
ExpressionMatchesAlwaysIn(r, rnaQuantId, featureIds, threshold) ==
    /\ Col(ExprColumns, r, "rna_quantification_id") = rnaQuantId
    /\ Col(ExprColumns, r, "expression") >= threshold
    /\ Col(ExprColumns, r, "feature_id") \in Range(featureIds)

\* ExpressionMatches with the threshold clause left out when the threshold is
\* the default
ExpressionMatchesOmittingDefault(r, rnaQuantId, featureIds, threshold) ==
    /\ Col(ExprColumns, r, "rna_quantification_id") = rnaQuantId
    /\ threshold # DefaultThreshold => Col(ExprColumns, r, "expression") >= threshold
    /\ Len(featureIds) > 0 => Col(ExprColumns, r, "feature_id") \in Range(featureIds)

\* the WHERE clause of searchExpressionLevelsInDb
ExpressionMatches(r, rnaQuantId, featureIds, threshold) ==
    /\ Col(ExprColumns, r, "rna_quantification_id") = rnaQuantId
    /\ Col(ExprColumns, r, "expression") >= threshold
    /\ Len(featureIds) > 0 => Col(ExprColumns, r, "feature_id") \in Range(featureIds)

\* searchExpressionLevelsInDb without the line that appends limitsSql
searchExpressionLevelsInDbUnlimited(st, rnaQuantId, featureIds, pageToken, pageSize, threshold) ==
    LET Match(r) == ExpressionMatches(r, rnaQuantId, featureIds, threshold)
    IN Returned(sqliteRows2dicts(ExprColumns, SelectSeq(st.expr, Match)))

\* SELECT * FROM Expression WHERE rna_quantification_id = ? AND expression >= ?
\* [AND feature_id in (?, ...)] + limits
searchExpressionLevelsInDb(st, rnaQuantId, featureIds, pageToken, pageSize, threshold) ==
    LET Match(r) == ExpressionMatches(r, rnaQuantId, featureIds, threshold)
    IN Returned(sqliteRows2dicts(ExprColumns,
           limitsSql(SelectSeq(st.expr, Match), pageToken, pageSize)))

\* SELECT * FROM Expression WHERE id = ?
getExpressionLevelById(st, expressionId) ==
    LET Match(r) == Col(ExprColumns, r, "id") = expressionId
        row == fetchone(SelectSeq(st.expr, Match))
    IN IF row = NoRow
       THEN Raised("ExpressionLevelNotFoundException", expressionId)
       ELSE Returned(<<sqliteRow2Dict(ExprColumns, row)>>)

-----------------------------------------------------------------------------
(* Entities *)

\* DatamodelObject.getId: the parent's compound id plus the local id
getId(parentId, localId) == Append(parentId, localId)

SetId == getId(DatasetId, SetLocalId)

\* ExpressionLevel.__init__
ExpressionLevel(parentId, record) ==
    [ parentId |-> parentId,
      localId |-> record["id"],
      expression |-> record["expression"],
      featureId |-> record["id"],
      isNormalized |-> record["is_normalized"] # 0,
      rawReadCount |-> record["raw_read_count"],
      score |-> record["score"],
      units |-> record["units"],
      name |-> record["name"],
      confIntervalLow |-> record["conf_low"],
      confIntervalHigh |-> record["conf_hi"] ]

\* AbstractExpressionLevel.toProtocolElement
ExpressionLevelToProtocolElement(e) ==
    [ id |-> getId(e.parentId, e.localId),
      name |-> e.name,
      feature_id |-> e.featureId,
      rna_quantification_id |-> e.parentId,
      raw_read_count |-> e.rawReadCount,
      expression |-> e.expression,
      is_normalized |-> e.isNormalized,
      units |-> e.units,
      score |-> e.score,
      conf_interval_low |-> e.confIntervalLow,
      conf_interval_high |-> e.confIntervalHigh ]

\* AbstractRNAQuantification.__init__ / RNASeqResult.__init__
RNASeqResult(parentId, localId) ==
    [ parentId |-> parentId,
      localId |-> localId,
      featureSetIds |-> <<>>,
      description |-> "",
      name |-> localId,
      readGroupIds |-> <<>>,
      programs |-> <<>>,
      dbFilePath |-> "",
      db |-> 0 ]

\* AbstractRNAQuantification.addRnaQuantMetadata
addRnaQuantMetadata(q, fields) ==
    [ q EXCEPT !.featureSetIds = Split(fields["feature_set_ids"]),
               !.description = fields["description"],
               !.name = fields["name"],
               !.readGroupIds = IF fields["read_group_ids"] = <<>> THEN <<>>
                                ELSE Split(fields["read_group_ids"]),
               !.programs = <<>> ]

\* AbstractRNAQuantification.toProtocolElement
RnaQuantificationToProtocolElement(q) ==
    [ id |-> getId(q.parentId, q.localId),
      name |-> q.name,
      description |-> q.description,
      read_group_ids |-> q.readGroupIds,
      programs |-> q.programs,
      feature_set_ids |-> q.featureSetIds,
      rna_quantification_set_id |-> q.parentId ]

-----------------------------------------------------------------------------
(* Call frames and the heap of backend objects *)

NoChild == RNASeqResult(<<>>, "")

NoArgs ==
    [ recv |-> <<>>, rnaQuantID |-> "", pageToken |-> 0, pageSize |-> NoLimit,
      thresholdGiven |-> FALSE, threshold |-> DefaultThreshold,
      featureIds |-> <<>>, compoundId |-> <<>>, id |-> <<>> ]

\* A thread between two calls; status, exc, excArg, levels and child are the
\* outcome of its last call.
IdleFrame(op, args, status, exc, excArg, levels, child) ==
    [ pc |-> "idle", op |-> op, args |-> args, phase |-> "", ds |-> 0,
      self |-> NoChild, rnaQuantsReturned |-> <<>>, rows |-> <<>>,
      exc |-> exc, excArg |-> excArg, i |-> 0, child |-> child,
      status |-> status, levels |-> levels ]

InitialFrame == IdleFrame("", NoArgs, "none", "", "", <<>>, NoChild)

\* A thread that has just entered `with self._db as dataSource` on backend b
CallFrame(op, args, phase, b, self) ==
    [ InitialFrame EXCEPT !.pc = "query", !.op = op, !.args = args,
                          !.phase = phase, !.ds = b, !.self = self ]

\* the backend objects something still refers to
Refs(d, m, f) ==
    ({d} \cup {m[k].db : k \in DOMAIN m} \cup {f[t].ds : t \in DOMAIN f}
         \cup {f[t].child.db : t \in DOMAIN f}
         \cup {f[t].self.db : t \in DOMAIN f}) \ {0}

\* the heap once unreferenced backend objects are reclaimed
Collect(conns, d, m, f) == [b \in Refs(d, m, f) |-> conns[b]]

\* a backend object not in the heap
Fresh(conns) == CHOOSE b \in 1..(Cardinality(DOMAIN conns) + 1) : b \notin DOMAIN conns

\* SqliteRNABackend(path) followed by __enter__ on it
NewEntered(conns, b, t) == Enter([x \in DOMAIN conns \cup {b} |->
                                     IF x = b THEN NoConnection ELSE conns[x]], b, t)

Threads == DOMAIN thr

\* a thread between two calls that may start another one
CanCall(t) == thr[t].pc = "idle" /\ quota[t] > 0

Called(t) == [quota EXCEPT ![t] = @ - 1]

OpenHandles == {b \in DOMAIN dbconn : dbconn[b].open}

-----------------------------------------------------------------------------
(* RnaQuantificationSet *)

\* populateFromFile / populateFromRow: the new backend, then addRnaQuants up
\* to its __enter__
Populate(t, op, dataUrl) ==
    /\ CanCall(t)
    /\ LET b == Fresh(dbconn)
           f == [thr EXCEPT ![t] = CallFrame(op, NoArgs, "outer", b, NoChild)]
       IN /\ dbFilePath' = dataUrl
          /\ db' = b
          /\ thr' = f
          /\ dbconn' = Collect(NewEntered(dbconn, b, t), b, rnaQuantIdMap, f)
    /\ quota' = Called(t)
    /\ UNCHANGED <<store, rnaQuantIdMap, rnaQuantIds>>

populateFromFile(t, dataUrl) == Populate(t, "populateFromFile", dataUrl)

populateFromRow(t, row) == Populate(t, "populateFromRow", row.dataUrl)

\* addRnaQuants called on a populated set, up to its __enter__
addRnaQuants(t) ==
    /\ CanCall(t)
    /\ db # 0
    /\ LET f == [thr EXCEPT ![t] = CallFrame("addRnaQuants", NoArgs, "outer", db, NoChild)]
       IN /\ thr' = f
          /\ dbconn' = Collect(Enter(dbconn, db, t), db, rnaQuantIdMap, f)
    /\ quota' = Called(t)
    /\ UNCHANGED <<store, dbFilePath, db, rnaQuantIdMap, rnaQuantIds>>

\* the loop of addRnaQuants: RNASeqResult(self, rnaQuant["name"]) and its
\* populateFromFile up to the __enter__ of getRnaQuantMetadata, or the return
\* once every row is done
addRnaQuantsLoop(t) ==
    /\ thr[t].pc = "loop"
    /\ LET fr == thr[t]
           b == Fresh(dbconn)
           q == [RNASeqResult(SetId, fr.rnaQuantsReturned[fr.i]["name"])
                    EXCEPT !.dbFilePath = dbFilePath, !.db = b]
           more == fr.i <= Len(fr.rnaQuantsReturned)
           f == [thr EXCEPT ![t] =
                    IF more
                    THEN [fr EXCEPT !.pc = "query", !.phase = "inner",
                                    !.ds = b, !.child = q]
                    ELSE IdleFrame(fr.op, fr.args, "returned", "", "", <<>>, NoChild)]
       IN /\ thr' = f
          /\ dbconn' = Collect(IF more THEN NewEntered(dbconn, b, t) ELSE dbconn,
                               db, rnaQuantIdMap, f)
    /\ UNCHANGED <<store, dbFilePath, db, rnaQuantIdMap, rnaQuantIds, quota>>

\* the rest of one iteration: addRnaQuantMetadata on the child, then
\* self._rnaQuantIdMap[id] = child; self._rnaQuantIds.append(id)
addRnaQuantsRegister(t) ==
    /\ thr[t].pc = "after"
    /\ thr[t].phase = "inner"
    /\ LET fr == thr[t]
           q == addRnaQuantMetadata(fr.child, fr.rows[1])
           id == getId(q.parentId, q.localId)
           m == [k \in DOMAIN rnaQuantIdMap \cup {id} |->
                    IF k = id THEN q ELSE rnaQuantIdMap[k]]
           f == [thr EXCEPT ![t] = [fr EXCEPT !.pc = "loop", !.i = fr.i + 1,
                                              !.ds = 0, !.child = NoChild,
                                              !.rows = <<>>]]
       IN /\ rnaQuantIdMap' = m
          /\ rnaQuantIds' = Append(rnaQuantIds, id)
          /\ thr' = f
          /\ dbconn' = Collect(dbconn, db, m, f)
    /\ UNCHANGED <<store, dbFilePath, db, quota>>

\* getNumRnaQuantifications
getNumRnaQuantifications == Len(rnaQuantIds)

\* getRnaQuantificationByIndex (index from 1 here)
getRnaQuantificationByIndex(index) == rnaQuantIdMap[rnaQuantIds[index]]

\* getRnaQuantifications
getRnaQuantifications == [i \in DOMAIN rnaQuantIds |-> rnaQuantIdMap[rnaQuantIds[i]]]

\* getRnaQuantification: self._rnaQuantIdMap[rnaQuantificationId]
getRnaQuantification(t, rnaQuantificationId) ==
    /\ CanCall(t)
    /\ db # 0
    /\ LET args == [NoArgs EXCEPT !.id = rnaQuantificationId]
           f == [thr EXCEPT ![t] =
                    IF rnaQuantificationId \in DOMAIN rnaQuantIdMap
                    THEN IdleFrame("getRnaQuantification", args, "returned", "", "",
                                   <<>>, rnaQuantIdMap[rnaQuantificationId])
                    ELSE IdleFrame("getRnaQuantification", args, "raised", "KeyError",
                                   rnaQuantificationId, <<>>, NoChild)]
       IN /\ thr' = f
          /\ dbconn' = Collect(dbconn, db, rnaQuantIdMap, f)
    /\ UNCHANGED <<store, dbFilePath, db, rnaQuantIdMap, rnaQuantIds>>
    /\ quota' = Called(t)

\* RnaQuantificationSet.getExpressionLevel up to its __enter__
setGetExpressionLevel(t, compoundId) ==
    /\ CanCall(t)
    /\ db # 0
    /\ LET args == [NoArgs EXCEPT !.compoundId = compoundId]
           f == [thr EXCEPT ![t] =
                    CallFrame("RnaQuantificationSet.getExpressionLevel", args, "", db, NoChild)]
       IN /\ thr' = f
          /\ dbconn' = Collect(Enter(dbconn, db, t), db, rnaQuantIdMap, f)
    /\ UNCHANGED <<store, dbFilePath, db, rnaQuantIdMap, rnaQuantIds>>
    /\ quota' = Called(t)

-----------------------------------------------------------------------------
(* RNASeqResult *)

\* getRnaQuantMetadata called on a quantification of the set, up to its
\* __enter__
getRnaQuantMetadata(t, recv) ==
    /\ CanCall(t)
    /\ recv \in DOMAIN rnaQuantIdMap
    /\ LET self == rnaQuantIdMap[recv]
           args == [NoArgs EXCEPT !.recv = recv]
           f == [thr EXCEPT ![t] = CallFrame("getRnaQuantMetadata", args, "", self.db, self)]
       IN /\ thr' = f
          /\ dbconn' = Collect(Enter(dbconn, self.db, t), db, rnaQuantIdMap, f)
    /\ UNCHANGED <<store, dbFilePath, db, rnaQuantIdMap, rnaQuantIds>>
    /\ quota' = Called(t)

\* the end of getRnaQuantMetadata: self.addRnaQuantMetadata(rnaQuantReturned)
addMetadata(t) ==
    /\ thr[t].pc = "after"
    /\ thr[t].op = "getRnaQuantMetadata"
    /\ LET fr == thr[t]
           recv == fr.args.recv
           \* the receiver is still the object the set holds under this id
           held == recv \in DOMAIN rnaQuantIdMap /\ rnaQuantIdMap[recv].db = fr.self.db
           m == IF held
                THEN [rnaQuantIdMap EXCEPT ![recv] = addRnaQuantMetadata(@, fr.rows[1])]
                ELSE rnaQuantIdMap
           f == [thr EXCEPT ![t] = IdleFrame(fr.op, fr.args, "returned", "", "", <<>>, NoChild)]
       IN /\ rnaQuantIdMap' = m
          /\ thr' = f
          /\ dbconn' = Collect(dbconn, db, m, f)
    /\ UNCHANGED <<store, dbFilePath, db, rnaQuantIds, quota>>

\* getExpressionLevels up to its __enter__; a call that passes no threshold
\* gets the default
getExpressionLevels(t, recv, rnaQuantID, pageToken, pageSize, thresholdGiven, threshold, featureIds) ==
    /\ CanCall(t)
    /\ recv \in DOMAIN rnaQuantIdMap
    /\ LET self == rnaQuantIdMap[recv]
           args == [NoArgs EXCEPT !.recv = recv, !.rnaQuantID = rnaQuantID,
                                  !.pageToken = pageToken, !.pageSize = pageSize,
                                  !.thresholdGiven = thresholdGiven,
                                  !.threshold = IF thresholdGiven THEN threshold
                                                ELSE DefaultThreshold,
                                  !.featureIds = featureIds]
           f == [thr EXCEPT ![t] = CallFrame("getExpressionLevels", args, "", self.db, self)]
       IN /\ thr' = f
          /\ dbconn' = Collect(Enter(dbconn, self.db, t), db, rnaQuantIdMap, f)
    /\ UNCHANGED <<store, dbFilePath, db, rnaQuantIdMap, rnaQuantIds>>
    /\ quota' = Called(t)

\* RNASeqResult.getExpressionLevel up to its __enter__
getExpressionLevel(t, recv, compoundId) ==
    /\ CanCall(t)
    /\ recv \in DOMAIN rnaQuantIdMap
    /\ LET self == rnaQuantIdMap[recv]
           args == [NoArgs EXCEPT !.recv = recv, !.compoundId = compoundId]
           f == [thr EXCEPT ![t] =
                    CallFrame("RNASeqResult.getExpressionLevel", args, "", self.db, self)]
       IN /\ thr' = f
          /\ dbconn' = Collect(Enter(dbconn, self.db, t), db, rnaQuantIdMap, f)
    /\ UNCHANGED <<store, dbFilePath, db, rnaQuantIdMap, rnaQuantIds>>
    /\ quota' = Called(t)

ExpressionOps ==
    {"getExpressionLevels", "RNASeqResult.getExpressionLevel",
     "RnaQuantificationSet.getExpressionLevel"}

AddOps == {"populateFromFile", "populateFromRow", "addRnaQuants"}

\* compoundId.expression_level_id
expression_level_id(compoundId) == compoundId[4]

-----------------------------------------------------------------------------
(* The body of a with block, its exit, and what follows it *)

\* the backend method the frame calls inside its with block
BackendCall(fr) ==
    CASE fr.op \in AddOps /\ fr.phase = "outer" ->
            searchRnaQuantificationsInDb(store, 0, NoLimit, "")
      [] fr.op \in AddOps /\ fr.phase = "inner" ->
            getRnaQuantificationById(store, fr.child.localId)
      [] fr.op = "getRnaQuantMetadata" ->
            getRnaQuantificationById(store, fr.self.localId)
      [] fr.op = "getExpressionLevels" ->
            searchExpressionLevelsInDb(store, fr.args.rnaQuantID, fr.args.featureIds,
                fr.args.pageToken, fr.args.pageSize, fr.args.threshold)
      [] OTHER ->
            getExpressionLevelById(store, expression_level_id(fr.args.compoundId))

\* self._dbconn.execute(...) and the fetch: on whatever connection the
\* backend object holds now. sqlite3 refuses a closed connection, and fails
\* on a damaged file.
Execute(t) ==
    /\ thr[t].pc = "query"
    /\ LET fr == thr[t]
           r == IF ~dbconn[fr.ds].open THEN Raised("ProgrammingError", "")
                ELSE IF store.damaged THEN Raised("OperationalError", "")
                ELSE BackendCall(fr)
       IN thr' = [thr EXCEPT ![t] =
                     [fr EXCEPT !.pc = "exit", !.exc = r.exc, !.excArg = r.excArg,
                                !.rows = IF fr.phase = "outer" THEN <<>> ELSE r.rows,
                                !.rnaQuantsReturned =
                                    IF fr.phase = "outer" THEN r.rows ELSE @]]
    /\ UNCHANGED <<store, dbFilePath, db, rnaQuantIdMap, rnaQuantIds, dbconn, quota>>

\* Release as it would be had the operations called __enter__ and __exit__ by
\* hand around the query instead of using a with block: an exception raised
\* by the query skips the close
ReleaseOnSuccessOnly(t) ==
    /\ thr[t].pc = "exit"
    /\ LET fr == thr[t]
           f == [thr EXCEPT ![t] =
                    IF fr.exc # ""
                    THEN IdleFrame(fr.op, fr.args, "raised", fr.exc, fr.excArg, <<>>, NoChild)
                    ELSE IF fr.phase = "outer"
                    THEN [fr EXCEPT !.pc = "loop", !.i = 1, !.ds = 0]
                    ELSE [fr EXCEPT !.pc = "after"]]
       IN /\ thr' = f
          /\ dbconn' = Collect(IF fr.exc # "" THEN dbconn ELSE Exit(dbconn, fr.ds),
                               db, rnaQuantIdMap, f)
    /\ UNCHANGED <<store, dbFilePath, db, rnaQuantIdMap, rnaQuantIds, quota>>

\* leaving the with block: __exit__ closes the backend's connection; a
\* pending exception then leaves the operation, dropping its locals
Release(t) ==
    /\ thr[t].pc = "exit"
    /\ LET fr == thr[t]
           f == [thr EXCEPT ![t] =
                    IF fr.exc # ""
                    THEN IdleFrame(fr.op, fr.args, "raised", fr.exc, fr.excArg, <<>>, NoChild)
                    ELSE IF fr.phase = "outer"
                    THEN [fr EXCEPT !.pc = "loop", !.i = 1, !.ds = 0]
                    ELSE [fr EXCEPT !.pc = "after"]]
       IN /\ thr' = f
          /\ dbconn' = Collect(Exit(dbconn, fr.ds), db, rnaQuantIdMap, f)
    /\ UNCHANGED <<store, dbFilePath, db, rnaQuantIdMap, rnaQuantIds, quota>>

\* the container the expression levels of a call are built under:
\* ExpressionLevel(self, ...)
ParentContainerId(fr) ==
    IF fr.op = "RnaQuantificationSet.getExpressionLevel" THEN SetId
    ELSE getId(fr.self.parentId, fr.self.localId)

\* the return statement of the three expression level operations
Hydrate(t) ==
    /\ thr[t].pc = "after"
    /\ thr[t].op \in ExpressionOps
    /\ LET fr == thr[t]
           levels == [i \in DOMAIN fr.rows |->
                         ExpressionLevel(ParentContainerId(fr), fr.rows[i])]
           f == [thr EXCEPT ![t] = IdleFrame(fr.op, fr.args, "returned", "", "", levels, NoChild)]
       IN /\ thr' = f
          /\ dbconn' = Collect(dbconn, db, rnaQuantIdMap, f)
    /\ UNCHANGED <<store, dbFilePath, db, rnaQuantIdMap, rnaQuantIds, quota>>

-----------------------------------------------------------------------------
(* Specifications *)

EmptyMap == [k \in {} |-> NoChild]

CompoundIds(exprIds) == {SetId \o <<q, e>> : q \in QuantIdPool, e \in exprIds}

\* the threshold argument of a call: passed or left to its default
Thresholds(values) ==
    {[given |-> FALSE, value |-> DefaultThreshold]}
        \cup {[given |-> TRUE, value |-> v] : v \in values}

\* the set as constructed: RnaQuantificationSet.__init__
InitObjects(T, n) ==
    /\ dbFilePath = ""
    /\ db = 0
    /\ rnaQuantIdMap = EmptyMap
    /\ rnaQuantIds = <<>>
    /\ dbconn = [b \in {} |-> NoConnection]
    /\ thr = [t \in T |-> InitialFrame]
    /\ quota = [t \in T |-> n]

\* the quantification populateFromFile builds from the i-th row of the
\* well-formed table DefaultQuant; its backend is object i + 1
PopulatedChild(i) ==
    LET fields == sqliteRow2Dict(QuantColumns, DefaultQuant[i])
    IN [addRnaQuantMetadata(RNASeqResult(SetId, fields["name"]), fields)
           EXCEPT !.dbFilePath = DataUrl, !.db = i + 1]

\* the set once the server has loaded it: constructed, then populateFromFile
\* run to its end on a store whose RnaQuantification table is DefaultQuant
InitPopulated(T, n) ==
    /\ dbFilePath = DataUrl
    /\ db = 1
    /\ rnaQuantIdMap =
          [id \in {getId(SetId, PopulatedChild(i).localId) : i \in DOMAIN DefaultQuant} |->
              PopulatedChild(CHOOSE i \in DOMAIN DefaultQuant :
                                 getId(SetId, PopulatedChild(i).localId) = id)]
    /\ rnaQuantIds = [i \in DOMAIN DefaultQuant |-> getId(SetId, PopulatedChild(i).localId)]
    /\ dbconn = [b \in 1..(Len(DefaultQuant) + 1) |-> NoConnection]
    /\ thr = [t \in T |-> InitialFrame]
    /\ quota = [t \in T |-> n]

SeqThreads == {1}

ConcThreads == {1, 2}

\* One request at a time, from the construction of the set on, over any
\* RnaQuantification table, on a sound or a damaged file.
Init ==
    /\ store \in {[quant |-> q, expr |-> DefaultExpr, damaged |-> d] :
                    q \in QuantTables, d \in BOOLEAN}
    /\ InitObjects(SeqThreads, MaxCalls)

Next ==
    \/ \E t \in SeqThreads : populateFromFile(t, DataUrl)
    \/ \E t \in SeqThreads : populateFromRow(t, [dataUrl |-> DataUrl])
    \/ \E t \in SeqThreads : addRnaQuants(t)
    \/ \E t \in SeqThreads : addRnaQuantsLoop(t)
    \/ \E t \in SeqThreads : addRnaQuantsRegister(t)
    \/ \E t \in SeqThreads, id \in {getId(SetId, "rq1"), getId(SetId, "rq9")} :
            getRnaQuantification(t, id)
    \/ \E t \in SeqThreads, c \in CompoundIds({"e1", "e3", "e9"}) :
            setGetExpressionLevel(t, c)
    \/ \E t \in SeqThreads, recv \in DOMAIN rnaQuantIdMap : getRnaQuantMetadata(t, recv)
    \/ \E t \in SeqThreads : addMetadata(t)
    \/ \E t \in SeqThreads, recv \in DOMAIN rnaQuantIdMap, q \in QuantIdPool,
          th \in Thresholds({10}) :
            getExpressionLevels(t, recv, q, 0, NoLimit, th.given, th.value, <<>>)
    \/ \E t \in SeqThreads, recv \in DOMAIN rnaQuantIdMap,
          c \in CompoundIds({"e1", "e3", "e9"}) :
            getExpressionLevel(t, recv, c)
    \/ \E t \in SeqThreads : Execute(t)
    \/ \E t \in SeqThreads : Release(t)
    \/ \E t \in SeqThreads : Hydrate(t)

Spec == Init /\ [][Next]_vars

\* One request listing the expression levels of quantification rq1 on a
\* loaded set, over any Expression table (rows of rq1 and of another
\* quantification) and every combination of page, threshold and filter.
InitSearch ==
    /\ store \in {[quant |-> DefaultQuant, expr |-> e, damaged |-> FALSE] :
                    e \in ExprTables}
    /\ InitPopulated(SeqThreads, 1)

NextSearch ==
    \/ \E t \in SeqThreads, p \in 0..MaxPage, s \in {NoLimit} \cup 1..MaxPage,
          th \in Thresholds({1, 5}), fs \in {<<>>, <<"f1">>, <<"f2", "f3">>} :
            getExpressionLevels(t, getId(SetId, "rq1"), "rq1", p, s, th.given, th.value, fs)
    \/ \E t \in SeqThreads : Execute(t)
    \/ \E t \in SeqThreads : Release(t)
    \/ \E t \in SeqThreads : Hydrate(t)

SpecSearch == InitSearch /\ [][NextSearch]_vars

\* Two request threads reading through the same loaded set.
InitConc ==
    /\ store = [quant |-> DefaultQuant, expr |-> DefaultExpr, damaged |-> FALSE]
    /\ InitPopulated(ConcThreads, 1)

NextConc ==
    \/ \E t \in ConcThreads, c \in CompoundIds({"e1", "e9"}) : setGetExpressionLevel(t, c)
    \/ \E t \in ConcThreads, recv \in DOMAIN rnaQuantIdMap, th \in Thresholds({10}) :
            getExpressionLevels(t, recv, "rq1", 0, NoLimit, th.given, th.value, <<>>)
    \/ \E t \in ConcThreads : Execute(t)
    \/ \E t \in ConcThreads : Release(t)
    \/ \E t \in ConcThreads : Hydrate(t)

SpecConc == InitConc /\ [][NextConc]_vars

-----------------------------------------------------------------------------
(* Properties *)

InWithBlock(t) == thr[t].pc \in {"query", "exit"}

\* C1: the store handle an operation opens is released on every exit path.
\* Outside a with block (before the call, while rows are hydrated, between
\* the iterations of addRnaQuants, after the return or the raise) no handle
\* is open; inside it exactly one is, the one the operation opened on the
\* backend it entered.
C1_HandleReleased ==
    \A t \in Threads :
        /\ ~InWithBlock(t) => OpenHandles = {}
        /\ InWithBlock(t) =>
              \/ OpenHandles = {thr[t].ds} /\ thr[t].pc = "query"
              \/ OpenHandles \subseteq {thr[t].ds} /\ thr[t].pc = "exit"
        /\ thr[t].pc = "exit" /\ thr[t].exc = "" => OpenHandles = {thr[t].ds}

\* C1 witness: a lookup raised its not-found error out of the with block and
\* left no handle open.
C1_Witness ==
    /\ thr[1].pc = "idle"
    /\ thr[1].status = "raised"
    /\ thr[1].exc = "ExpressionLevelNotFoundException"
    /\ thr[1].op = "RNASeqResult.getExpressionLevel"
    /\ OpenHandles = {}

\* C2: two requests reaching the same object each use a handle of their own:
\* the connection a request queries is the one it opened, still open, and
\* each request ends as it would alone.
C2_IndependentHandles ==
    \A t \in Threads :
        /\ thr[t].pc = "query" => dbconn[thr[t].ds] = Connection(t)
        /\ thr[t].pc = "idle" /\ thr[t].status # "none" =>
              LET alone == BackendCall(thr[t])
              IN /\ thr[t].exc = alone.exc
                 /\ thr[t].excArg = alone.excArg
                 /\ Len(thr[t].levels) = Len(alone.rows)
                 /\ \A i \in DOMAIN alone.rows :
                        thr[t].levels[i].localId = alone.rows[i]["id"]

-----------------------------------------------------------------------------
(* Listing expression levels *)

\* a getExpressionLevels call of thread t has returned
Listed(t) ==
    /\ thr[t].pc = "idle"
    /\ thr[t].op = "getExpressionLevels"
    /\ thr[t].status = "returned"

Unpaged(t) == thr[t].args.pageToken = 0 /\ thr[t].args.pageSize = NoLimit

ExprId(r) == Col(ExprColumns, r, "id")

\* the Expression row an expression level was built from
RowOf(level) == CHOOSE i \in DOMAIN store.expr : ExprId(store.expr[i]) = level.localId

\* positions, in the Expression table, of the rows returned to thread t
ReturnedRows(t) == [i \in DOMAIN thr[t].levels |-> RowOf(thr[t].levels[i])]

ReturnedSet(t) == Range(ReturnedRows(t))

InScope(t, i) ==
    Col(ExprColumns, store.expr[i], "rna_quantification_id") = thr[t].args.rnaQuantID

AtLeast(i, th) == Col(ExprColumns, store.expr[i], "expression") >= th

FeatureIn(i, featureIds) ==
    Col(ExprColumns, store.expr[i], "feature_id") \in Range(featureIds)

PassesFilter(t, i) ==
    thr[t].args.featureIds # <<>> => FeatureIn(i, thr[t].args.featureIds)

\* positions of the rows matching the scope and the filters of t's call, in
\* store order
Matching(t) ==
    LET Keep(i) == InScope(t, i) /\ AtLeast(i, thr[t].args.threshold) /\ PassesFilter(t, i)
    IN SelectSeq([i \in DOMAIN store.expr |-> i], Keep)

\* C3: with N matching rows, pageSize = k and pageToken = t return exactly the
\* matching rows at positions [t, t+k) in store order, fewer only when
\* t + k > N, and nothing, without raising, when t >= N.
C3_PaginationExact ==
    \A t \in Threads :
        thr[t].pc = "idle" /\ thr[t].op = "getExpressionLevels"
                /\ thr[t].args.pageSize # NoLimit =>
            LET m == Matching(t)
                n == Len(m)
                tok == thr[t].args.pageToken
                k == thr[t].args.pageSize
                count == IF tok >= n THEN 0 ELSE IF tok + k > n THEN n - tok ELSE k
            IN /\ thr[t].status = "returned"
               /\ Len(thr[t].levels) = count
               /\ \A j \in 1..count : ReturnedRows(t)[j] = m[tok + j]

\* C3 witness: a page of one row from the middle of three matching rows.
C3_Witness ==
    /\ Listed(1)
    /\ thr[1].args.pageToken = 1
    /\ thr[1].args.pageSize = 1
    /\ Len(Matching(1)) = 3
    /\ Len(thr[1].levels) = 1
    /\ ReturnedRows(1)[1] = Matching(1)[2]

\* C4: a call with threshold th returns no expression level whose expression
\* is below th, and, unpaged, returns every row of the scoped quantification
\* with expression >= th that passes the id filter.
C4_ThresholdFilter ==
    \A t \in Threads :
        Listed(t) /\ thr[t].args.thresholdGiven =>
            /\ \A i \in DOMAIN thr[t].levels :
                  /\ thr[t].levels[i].expression >= thr[t].args.threshold
                  /\ AtLeast(ReturnedRows(t)[i], thr[t].args.threshold)
            /\ Unpaged(t) =>
                  ReturnedSet(t) =
                      {i \in DOMAIN store.expr :
                          /\ InScope(t, i)
                          /\ AtLeast(i, thr[t].args.threshold)
                          /\ PassesFilter(t, i)}

\* C4 witness: a threshold of 0.5 kept one row of the quantification and
\* dropped another.
C4_Witness ==
    /\ Listed(1)
    /\ Unpaged(1)
    /\ thr[1].args.thresholdGiven
    /\ thr[1].args.threshold = 5
    /\ Len(thr[1].levels) = 1
    /\ \E i \in DOMAIN store.expr :
          InScope(1, i) /\ PassesFilter(1, i) /\ ~AtLeast(i, 5)

\* C5: with an empty featureIds filter the result is every row matching the
\* scope and the threshold; with a non-empty one it is exactly the matching
\* rows whose feature_id is in the filter, and no row outside it is returned.
C5_IdFilter ==
    \A t \in Threads :
        Listed(t) =>
            LET fs == thr[t].args.featureIds
                th == thr[t].args.threshold
            IN /\ fs # <<>> => \A i \in ReturnedSet(t) : FeatureIn(i, fs)
               /\ Unpaged(t) /\ fs = <<>> =>
                     ReturnedSet(t) =
                         {i \in DOMAIN store.expr : InScope(t, i) /\ AtLeast(i, th)}
               /\ Unpaged(t) /\ fs # <<>> =>
                     ReturnedSet(t) =
                         {i \in DOMAIN store.expr :
                             InScope(t, i) /\ AtLeast(i, th) /\ FeatureIn(i, fs)}

\* C5 witness: the filter ["f1"] returned the f1 row of a quantification that
\* also holds an f2 row above the threshold.
C5_Witness ==
    /\ Listed(1)
    /\ Unpaged(1)
    /\ thr[1].args.featureIds = <<"f1">>
    /\ Len(thr[1].levels) = 1
    /\ \E i \in DOMAIN store.expr :
          /\ InScope(1, i)
          /\ AtLeast(i, thr[1].args.threshold)
          /\ ~FeatureIn(i, <<"f1">>)

\* C9 as claimed: a call that passes no threshold is not filtered by
\* expression: unpaged, it returns every row of the scope that passes the id
\* filter, whatever its expression.
C9_NoThresholdNoFiltering ==
    \A t \in Threads :
        Listed(t) /\ ~thr[t].args.thresholdGiven /\ Unpaged(t) =>
            ReturnedSet(t) = {i \in DOMAIN store.expr : InScope(t, i) /\ PassesFilter(t, i)}

\* C9 as amended: a call that passes no threshold is filtered at the default
\* 0.0: it returns no row with a negative expression and, unpaged, every row
\* of the scope with expression >= 0.0 that passes the id filter.
C9_DefaultThresholdIsZero ==
    \A t \in Threads :
        Listed(t) /\ ~thr[t].args.thresholdGiven =>
            /\ \A i \in ReturnedSet(t) : AtLeast(i, 0)
            /\ Unpaged(t) =>
                  ReturnedSet(t) =
                      {i \in DOMAIN store.expr :
                          InScope(t, i) /\ AtLeast(i, 0) /\ PassesFilter(t, i)}

\* C9 witness: a call without threshold left out a row of its quantification
\* whose expression is negative and returned another.
C9_Witness ==
    /\ Listed(1)
    /\ Unpaged(1)
    /\ ~thr[1].args.thresholdGiven
    /\ Len(thr[1].levels) = 1
    /\ \E i \in DOMAIN store.expr :
          InScope(1, i) /\ PassesFilter(1, i) /\ ~AtLeast(i, 0)

-----------------------------------------------------------------------------
(* Lookups and hydration *)

\* a call of thread t is over, by a return or by a raise
Over(t) == thr[t].pc = "idle" /\ thr[t].status # "none"

\* an expression level operation of thread t has returned
Resolved(t) ==
    /\ thr[t].pc = "idle"
    /\ thr[t].op \in ExpressionOps
    /\ thr[t].status = "returned"

ExprIds == {ExprId(store.expr[i]) : i \in DOMAIN store.expr}

QuantIds == {Col(QuantColumns, store.quant[i], "id") : i \in DOMAIN store.quant}

\* the store file is sound (the failure of the store itself is no lookup
\* result)
Sound == ~store.damaged

\* C6: resolving an absent id raises the typed not-found error of its kind,
\* carrying the id, and builds no entity: the quantification error from
\* getRnaQuantification and getRnaQuantificationById, the expression level
\* error from the getExpressionLevel methods; no other error kind results.
C6_TypedNotFound ==
    \A t \in Threads :
        Over(t) /\ Sound =>
            /\ thr[t].op = "getRnaQuantification"
                    /\ thr[t].args.id \notin DOMAIN rnaQuantIdMap =>
                  /\ thr[t].status = "raised"
                  /\ thr[t].exc = "RnaQuantificationNotFoundException"
                  /\ thr[t].excArg = thr[t].args.id
                  /\ thr[t].child = NoChild
            /\ thr[t].op \in {"RNASeqResult.getExpressionLevel",
                              "RnaQuantificationSet.getExpressionLevel"}
                    /\ expression_level_id(thr[t].args.compoundId) \notin ExprIds =>
                  /\ thr[t].status = "raised"
                  /\ thr[t].exc = "ExpressionLevelNotFoundException"
                  /\ thr[t].excArg = expression_level_id(thr[t].args.compoundId)
                  /\ thr[t].levels = <<>>
            /\ thr[t].op \in AddOps \cup {"getRnaQuantMetadata"}
                    /\ thr[t].status = "raised" =>
                  /\ thr[t].exc = "RnaQuantificationNotFoundException"
                  /\ thr[t].excArg \notin QuantIds

\* C7: the transfer object of an expression level carries every field of its
\* Expression row unchanged: feature_id from the feature_id column, name,
\* expression, raw_read_count, score, units, conf_low and conf_hi from their
\* columns, is_normalized 1/0 as true/false.
C7_LosslessHydration ==
    \A t \in Threads :
        Resolved(t) /\ Sound =>
            \A i \in DOMAIN thr[t].levels :
                LET pe == ExpressionLevelToProtocolElement(thr[t].levels[i])
                    row == sqliteRow2Dict(ExprColumns, store.expr[RowOf(thr[t].levels[i])])
                IN /\ pe.feature_id = row["feature_id"]
                   /\ pe.name = row["name"]
                   /\ pe.expression = row["expression"]
                   /\ pe.raw_read_count = row["raw_read_count"]
                   /\ pe.score = row["score"]
                   /\ pe.units = row["units"]
                   /\ pe.conf_interval_low = row["conf_low"]
                   /\ pe.conf_interval_high = row["conf_hi"]
                   /\ pe.is_normalized = (row["is_normalized"] = 1)

\* C8: every expression level an operation returns has as parent the
\* quantification that owns its row: its compound id has the 4 segments
\* dataset, set, quantification, expression level, and its
\* rna_quantification_id is the id of the quantification the row names.
C8_Ancestry ==
    \A t \in Threads :
        Resolved(t) /\ Sound =>
            \A i \in DOMAIN thr[t].levels :
                LET pe == ExpressionLevelToProtocolElement(thr[t].levels[i])
                    row == sqliteRow2Dict(ExprColumns, store.expr[RowOf(thr[t].levels[i])])
                    owner == getId(SetId, row["rna_quantification_id"])
                IN /\ Len(pe.id) = 4
                   /\ pe.id = getId(owner, row["id"])
                   /\ pe.rna_quantification_id = owner

NoDuplicates(s) == \A i, j \in DOMAIN s : s[i] = s[j] => i = j

\* C10: once populateFromFile, populateFromRow or addRnaQuants has returned,
\* however many such calls came before, the set holds exactly one
\* quantification per row of the RnaQuantification table, in store order,
\* each with that row's metadata; the id list has no duplicates and every id
\* in it is a key of the id map.
C10_ChildDiscovery ==
    \A t \in Threads :
        thr[t].pc = "idle" /\ thr[t].op \in AddOps /\ thr[t].status = "returned"
                /\ Sound =>
            /\ getNumRnaQuantifications = Len(store.quant)
            /\ NoDuplicates(rnaQuantIds)
            /\ Range(rnaQuantIds) \subseteq DOMAIN rnaQuantIdMap
            /\ Len(getRnaQuantifications) = Len(store.quant)
            /\ \A i \in DOMAIN store.quant :
                  LET row == sqliteRow2Dict(QuantColumns, store.quant[i])
                      pe == RnaQuantificationToProtocolElement(getRnaQuantificationByIndex(i))
                  IN /\ pe.name = row["name"]
                     /\ pe.description = row["description"]
                     /\ pe.feature_set_ids = Split(row["feature_set_ids"])
                     /\ pe.read_group_ids = row["read_group_ids"]
                     /\ pe.rna_quantification_set_id = SetId

====
